---- MODULE Spec2Model ----
(***************************************************************************)
(* The forwarding service of server.js: one Express application with the   *)
(* cors() middleware and a single route, GET /search, that relays a query  *)
(* to the TMDB search endpoint and sends the decoded JSON back.            *)
(*                                                                         *)
(* Every request is a process of its own.  A step of the model is one run  *)
(* of the event loop: the code between two awaits executes atomically.     *)
(*   Receive       middleware + handler up to `await fetch(...)`           *)
(*   FetchResolve  the fetch promise fulfils; handler calls response.json  *)
(*   FetchReject   the fetch promise rejects; the catch block answers      *)
(*   UpstreamHang  the upstream never answers this call                    *)
(*   JsonSettle    response.json() settles; res.json(data) or catch block  *)
(*   ChangeUpstream the third-party service changes what it returns        *)
(***************************************************************************)
EXTENDS Integers, Sequences, FiniteSets, TLC

\* ------------------------------------------------------------------ bounds
NumRequests == 2
MaxUpstreamChanges == 1

Reqs == 1..NumRequests

\* ------------------------------------------------------- strings and query
\* A JavaScript string is a sequence of one-character strings.  req.query.query
\* is either undefined (parameter absent) or a string (possibly empty).
Undefined == [defined |-> FALSE, str |-> <<>>]

Str(s) == [defined |-> TRUE, str |-> s]

QueryInputs ==
    { Undefined, Str(<<>>), Str(<<"x">>), Str(<<"a", "&">>) }

\* Variant: a test for undefined only (`query === undefined`).
TruthyDefinedOnly(q) == q.defined

\* `!query` is true for undefined and for the empty string only.
Truthy(q) == q.defined /\ q.str # <<>>

\* encodeURIComponent on one character: unreserved characters pass, the rest
\* is percent-encoded.
EncodeChar(c) ==
    CASE c = "&" -> <<"%", "2", "6">>
      [] c = " " -> <<"%", "2", "0">>
      [] OTHER   -> <<c>>

RECURSIVE EncodeSeq(_)
EncodeSeq(s) ==
    IF s = <<>> THEN <<>> ELSE EncodeChar(Head(s)) \o EncodeSeq(Tail(s))

\* encodeURIComponent(v): the argument is converted with String(v) first.
EncodeURIComponent(q) ==
    IF q.defined THEN EncodeSeq(q.str)
    ELSE <<"u", "n", "d", "e", "f", "i", "n", "e", "d">>

\* process.env.TMDB_API_KEY || '<fallback>'
TMDB_API_KEY == "f81af962f969df1a8bebbb9f6b7f17b7"

\* ------------------------------------------------------------- JSON texts
\* A body is a text: either not JSON at all, or an object written as a list
\* of members <<key, token>> in the order they appear (a key may repeat).
\* `complete` is FALSE when the transport broke while the body was read.
Text(ms) == [complete |-> TRUE, wellFormed |-> TRUE, members |-> ms]

NotJson == [complete |-> TRUE, wellFormed |-> FALSE, members |-> <<>>]

Broken == [complete |-> FALSE, wellFormed |-> TRUE, members |-> <<>>]

\* JSON.parse on a number token: the token becomes an IEEE-754 double.
\* Other tokens (strings) decode to themselves.
ToDouble(tok) ==
    CASE tok = "1.0"   -> "1"
      [] tok = "1e400" -> "Infinity"
      [] OTHER         -> tok

\* JSON.stringify on a value: a non-finite number is written null, a finite
\* one in its shortest form.
NumberToJSON(v) == IF v = "Infinity" THEN "null" ELSE v

\* obj[key] = v on an object kept as an insertion-ordered list of properties.
SetProperty(obj, k, v) ==
    IF \E i \in 1..Len(obj) : obj[i][1] = k
    THEN [i \in 1..Len(obj) |-> IF obj[i][1] = k THEN <<k, v>> ELSE obj[i]]
    ELSE Append(obj, <<k, v>>)

RECURSIVE ParseMembers(_, _)
ParseMembers(ms, obj) ==
    IF ms = <<>> THEN obj
    ELSE ParseMembers(Tail(ms), SetProperty(obj, Head(ms)[1], ToDouble(Head(ms)[2])))

\* JSON.parse(text) for a well-formed text.
JSONParse(text) == ParseMembers(text.members, <<>>)

\* JSON.stringify(value)
JSONStringify(obj) ==
    Text([i \in 1..Len(obj) |-> <<obj[i][1], NumberToJSON(obj[i][2])>>])

\* ---------------------------------------------------------------- upstream
\* What the third-party service (and the network in front of it) does with
\* one call: the fetch promise rejects, the call is never answered, or an
\* HTTP reply with a status and a body arrives.
Reply(st, b) == [kind |-> "response", status |-> st, body |-> b]

RejectOutcome == [kind |-> "reject", status |-> 0, body |-> NotJson]

HangOutcome == [kind |-> "hang", status |-> 0, body |-> NotJson]

NoOutcome == [kind |-> "none", status |-> 0, body |-> NotJson]

UpstreamReplies ==
    { Reply(200, Text(<< <<"page", "1">> >>)),
      Reply(200, Text(<< <<"page", "1.0">> >>)),
      Reply(200, Text(<< <<"id", "1">>, <<"id", "2">> >>)),
      Reply(200, Text(<< <<"id", "1e400">> >>)),
      Reply(401, Text(<< <<"status_code", "7">> >>)),
      Reply(502, NotJson),
      Reply(200, Broken) }

\* One reply for each way the body of a reply can turn out.
ReplyShapes ==
    { Reply(200, Text(<< <<"page", "1">> >>)),
      Reply(502, NotJson),
      Reply(200, Broken) }

\* ------------------------------------------------------------------- state
VARIABLES
    pc,          \* where each request's handler stands
    query,       \* req.query.query of each received request
    resHeaders,  \* headers set on each request's res object
    sent,        \* every response sent on each request's res, in order
    calls,       \* every outbound URL fetched for each request, in order
    response,    \* the handler's local `response` after `await fetch`
    outcome,     \* what the upstream did with each request's call
    cause,       \* the error the catch block caught, if any
    upstream,    \* replies the upstream has given since it last changed, by URL
    epoch        \* how many times the upstream has changed

vars == <<pc, query, resHeaders, sent, calls, response, outcome, cause,
          upstream, epoch>>

\* ------------------------------------------------------------- middleware
\* Variant: the middleware is not installed before the route.
CorsOff(h) == h

\* cors() with default options: Access-Control-Allow-Origin: * on res.
Cors(h) == h \cup { <<"Access-Control-Allow-Origin", "*">> }

\* ------------------------------------------------------------ the handler
MissingQueryBody == Text(<< <<"error", "\"Missing query parameter\"">> >>)

FetchErrorBody == Text(<< <<"error", "\"Error fetching data\"">> >>)

HttpResponse(st, b, h) == [status |-> st, body |-> b, headers |-> h]

\* Variant: the URL also carries a count kept across requests.
UrlCounted(q) ==
    <<"https://api.themoviedb.org/3/search/movie?api_key=", TMDB_API_KEY,
      "&query=">> \o EncodeURIComponent(q)
      \o <<"&n=", ToString(Cardinality({r \in Reqs : calls[r] # <<>>}))>>

\* The template literal of the fetch call.
Url(q) ==
    <<"https://api.themoviedb.org/3/search/movie?api_key=", TMDB_API_KEY,
      "&query=">> \o EncodeURIComponent(q)

\* Variant: the 400 branch lacks its `return` and falls through to the fetch.
HandlerStartNoReturn(q, h) ==
    IF ~Truthy(q)
    THEN [pc |-> "awaitFetch",
          sent |-> <<HttpResponse(400, MissingQueryBody, h)>>,
          calls |-> <<Url(q)>>]
    ELSE [pc |-> "awaitFetch", sent |-> <<>>, calls |-> <<Url(q)>>]

\* The handler from its first line to `await fetch(...)`: what it has sent,
\* what it has fetched and where it stands when it yields.
HandlerStart(q, h) ==
    IF ~Truthy(q)
    THEN [pc |-> "done",
          sent |-> <<HttpResponse(400, MissingQueryBody, h)>>,
          calls |-> <<>>]
    ELSE [pc |-> "awaitFetch", sent |-> <<>>, calls |-> <<Url(q)>>]

\* Variant: a reply with an error status is thrown on (`if (!response.ok) throw`).
JsonFailureCheckStatus(rep) ==
    CASE rep.status >= 400    -> "status"
      [] ~rep.body.complete   -> "transport"
      [] ~rep.body.wellFormed -> "decode"
      [] OTHER                -> "none"

\* `await response.json()`: "none" when it fulfils, else what it rejects with.
\* The reply's status is not looked at.
JsonFailure(rep) ==
    CASE ~rep.body.complete   -> "transport"
      [] ~rep.body.wellFormed -> "decode"
      [] OTHER                -> "none"

\* res.json(data): status 200, the value written back as JSON.
OkResponse(rep, h) == HttpResponse(200, JSONStringify(JSONParse(rep.body)), h)

\* Variant: the caught error is put in the body.
CatchResponseLeaky(err, h) ==
    HttpResponse(500, Text(<< <<"error", err>> >>), h)

\* The catch block: the caught error is not looked at.
CatchResponse(err, h) == HttpResponse(500, FetchErrorBody, h)

\* Variant: res is kept in one place shared by all requests, so it is the
\* res of the request received last.
ResLatest(r) ==
    CHOOSE x \in Reqs : pc[x] # "new" /\ \A y \in Reqs : pc[y] # "new" => y <= x

\* The res object the handler's closure holds: the one of its own request.
ResOf(r) == r

Send(r, resp) == [sent EXCEPT ![ResOf(r)] = Append(@, resp)]

\* Variant: the upstream call is made synchronously and holds the event loop.
DispatchableBlocking(r) ==
    /\ pc[r] = "new"
    /\ \A x \in Reqs : pc[x] \notin {"awaitFetch", "awaitJson", "hung"}

\* The event loop takes up a request whenever it runs; a handler suspended
\* in an await does not hold it.
Dispatchable(r) == pc[r] = "new"

\* The upstream answers a URL the same way until it changes.
\* `upstream` holds the pairs <<URL, outcome>> it has answered with.
Serves(url, o) == \A p \in upstream : p[1] = url => p[2] = o

Remember(url, o) == upstream \cup { <<url, o>> }

Stamp(o) == [kind |-> o.kind, status |-> o.status, body |-> o.body, epoch |-> epoch]

LastCall(r) == calls[r][Len(calls[r])]

\* ------------------------------------------------------------------ actions
Init ==
    /\ epoch = 0
    /\ pc = [r \in Reqs |-> "new"]
    /\ query = [r \in Reqs |-> Undefined]
    /\ resHeaders = [r \in Reqs |-> {}]
    /\ sent = [r \in Reqs |-> <<>>]
    /\ calls = [r \in Reqs |-> <<>>]
    /\ response = [r \in Reqs |-> NoOutcome]
    /\ outcome = [r \in Reqs |-> Stamp(NoOutcome)]
    /\ cause = [r \in Reqs |-> "none"]
    /\ upstream = {}

\* A GET /search request arrives: cors(), then the handler up to its first await.
Receive(r, q) ==
    /\ Dispatchable(r)
    /\ LET h == Cors({})
           s == HandlerStart(q, h)
       IN /\ query' = [query EXCEPT ![r] = q]
          /\ resHeaders' = [resHeaders EXCEPT ![r] = h]
          /\ pc' = [pc EXCEPT ![r] = s.pc]
          /\ sent' = [sent EXCEPT ![r] = @ \o s.sent]
          /\ calls' = [calls EXCEPT ![r] = @ \o s.calls]
    /\ UNCHANGED <<response, outcome, cause, upstream, epoch>>

\* The fetch promise fulfils with a reply; the handler calls response.json().
FetchResolve(r, o) ==
    /\ pc[r] = "awaitFetch"
    /\ Serves(LastCall(r), o)
    /\ upstream' = Remember(LastCall(r), o)
    /\ outcome' = [outcome EXCEPT ![r] = Stamp(o)]
    /\ response' = [response EXCEPT ![r] = o]
    /\ pc' = [pc EXCEPT ![r] = "awaitJson"]
    /\ UNCHANGED <<query, resHeaders, sent, calls, cause, epoch>>

\* Variant: a rejected fetch is issued once more before the catch block answers.
FetchRejectRetry(r) ==
    /\ pc[r] = "awaitFetch"
    /\ Serves(LastCall(r), RejectOutcome)
    /\ upstream' = Remember(LastCall(r), RejectOutcome)
    /\ outcome' = [outcome EXCEPT ![r] = Stamp(RejectOutcome)]
    /\ IF Len(calls[r]) < 2
       THEN /\ calls' = [calls EXCEPT ![r] = Append(@, LastCall(r))]
            /\ UNCHANGED <<cause, sent, pc>>
       ELSE /\ cause' = [cause EXCEPT ![r] = "transport"]
            /\ sent' = Send(r, CatchResponse("transport", resHeaders[ResOf(r)]))
            /\ pc' = [pc EXCEPT ![r] = "done"]
            /\ UNCHANGED calls
    /\ UNCHANGED <<query, resHeaders, response, epoch>>

\* The fetch promise rejects; the catch block answers.
FetchReject(r) ==
    /\ pc[r] = "awaitFetch"
    /\ Serves(LastCall(r), RejectOutcome)
    /\ upstream' = Remember(LastCall(r), RejectOutcome)
    /\ outcome' = [outcome EXCEPT ![r] = Stamp(RejectOutcome)]
    /\ cause' = [cause EXCEPT ![r] = "transport"]
    /\ sent' = Send(r, CatchResponse("transport", resHeaders[ResOf(r)]))
    /\ pc' = [pc EXCEPT ![r] = "done"]
    /\ UNCHANGED <<query, resHeaders, calls, response, epoch>>

\* Variant: the pending fetch is given up after a timeout and the catch block answers.
UpstreamHangTimeout(r) ==
    /\ pc[r] = "awaitFetch"
    /\ Serves(LastCall(r), HangOutcome)
    /\ upstream' = Remember(LastCall(r), HangOutcome)
    /\ outcome' = [outcome EXCEPT ![r] = Stamp(HangOutcome)]
    /\ pc' = [pc EXCEPT ![r] = "hung"]
    /\ cause' = [cause EXCEPT ![r] = "transport"]
    /\ sent' = Send(r, CatchResponse("transport", resHeaders[ResOf(r)]))
    /\ UNCHANGED <<query, resHeaders, calls, response, epoch>>

\* The upstream never answers the call.  fetch is called without a timeout
\* or an abort signal, so the handler stays in its await.
UpstreamHang(r) ==
    /\ pc[r] = "awaitFetch"
    /\ Serves(LastCall(r), HangOutcome)
    /\ upstream' = Remember(LastCall(r), HangOutcome)
    /\ outcome' = [outcome EXCEPT ![r] = Stamp(HangOutcome)]
    /\ pc' = [pc EXCEPT ![r] = "hung"]
    /\ UNCHANGED <<query, resHeaders, sent, calls, response, cause, epoch>>

\* response.json() settles: res.json(data), or the catch block.
JsonSettle(r) ==
    /\ pc[r] = "awaitJson"
    /\ LET err == JsonFailure(response[r])
           h == resHeaders[ResOf(r)]
       IN IF err = "none"
          THEN /\ sent' = Send(r, OkResponse(response[r], h))
               /\ UNCHANGED cause
          ELSE /\ sent' = Send(r, CatchResponse(err, h))
               /\ cause' = [cause EXCEPT ![r] = err]
    /\ pc' = [pc EXCEPT ![r] = "done"]
    /\ UNCHANGED <<query, resHeaders, calls, response, outcome, upstream, epoch>>

\* The third-party service changes: it may answer any URL differently.
ChangeUpstream ==
    /\ epoch < MaxUpstreamChanges
    /\ epoch' = epoch + 1
    /\ upstream' = {}
    /\ UNCHANGED <<pc, query, resHeaders, sent, calls, response, outcome, cause>>

\* The fetch of r settles, with a reply drawn from `replies`, or hangs.
FetchStepOver(r, replies) ==
    \/ \E o \in replies : FetchResolve(r, o)
    \/ FetchReject(r)
    \/ UpstreamHang(r)

FetchStep(r) == FetchStepOver(r, UpstreamReplies)

NextOver(replies) ==
    \/ \E r \in Reqs, q \in QueryInputs : Receive(r, q)
    \/ \E r \in Reqs, o \in replies : FetchResolve(r, o)
    \/ \E r \in Reqs : FetchReject(r)
    \/ \E r \in Reqs : UpstreamHang(r)
    \/ \E r \in Reqs : JsonSettle(r)
    \/ ChangeUpstream

Next == NextOver(UpstreamReplies)

Spec == Init /\ [][Next]_vars

\* The same system with one reply for each way response.json() can settle
\* (fulfilled, rejected on the text, rejected on the stream), under the
\* scheduling Node gives: a ready continuation is run by the event loop, and
\* every call the upstream has received is eventually answered, refused or
\* left hanging.
LiveNext == NextOver(ReplyShapes)

LiveSpec ==
    /\ Init
    /\ [][LiveNext]_vars
    /\ \A r \in Reqs : WF_vars(FetchStepOver(r, ReplyShapes))
    /\ \A r \in Reqs : WF_vars(JsonSettle(r))

\* ============================================================== properties
AllowAnyOrigin == <<"Access-Control-Allow-Origin", "*">>

Absent(r) == pc[r] # "new" /\ ~query[r].defined

Empty(r) == pc[r] # "new" /\ query[r].defined /\ query[r].str = <<>>

NonEmpty(r) == pc[r] # "new" /\ query[r].defined /\ query[r].str # <<>>

Replied(r) == outcome[r].kind = "response"

\* The upstream call of r succeeded: a reply arrived whose body was read to
\* the end and is JSON.
Succeeded(r) ==
    /\ Replied(r)
    /\ outcome[r].body.complete
    /\ outcome[r].body.wellFormed

\* The upstream call of r failed: the transport failed (before or while the
\* body was read) or the body is not JSON.
Failed(r) ==
    \/ outcome[r].kind = "reject"
    \/ Replied(r) /\ ~(outcome[r].body.complete /\ outcome[r].body.wellFormed)

OneResponse(r, st) == Len(sent[r]) = 1 /\ sent[r][1].status = st

\* The number a JSON number token denotes.
Denotes(tok) == IF tok = "1.0" THEN "1" ELSE tok

\* The JSON document a text denotes: its members, whatever their order and
\* however their numbers are written.
Doc(text) ==
    { <<text.members[i][1], Denotes(text.members[i][2])>> :
        i \in 1..Len(text.members) }

\* What a text becomes when every number is held as a double and of the
\* members sharing a key only the last is kept.
AsDouble(tok) == IF tok = "1e400" THEN "null" ELSE Denotes(tok)

DecodedDoc(text) ==
    { <<text.members[i][1], AsDouble(text.members[i][2])>> :
        i \in { k \in 1..Len(text.members) :
                  \A j \in (k + 1)..Len(text.members) :
                      text.members[j][1] # text.members[k][1] } }

\* No key twice, every number exactly a finite double.
Representable(text) ==
    /\ \A i, j \in 1..Len(text.members) :
          text.members[i][1] = text.members[j][1] => i = j
    /\ \A i \in 1..Len(text.members) : text.members[i][2] # "1e400"

\* C1: a request whose query parameter is absent or empty is answered 400
\* with {"error": "Missing query parameter"}, at once, and no upstream call
\* is issued for it.
C1_MissingQuery ==
    \A r \in Reqs :
        (Absent(r) \/ Empty(r)) =>
            /\ pc[r] = "done"
            /\ OneResponse(r, 400)
            /\ sent[r][1].body = MissingQueryBody
            /\ calls[r] = <<>>
            /\ outcome[r].kind = "none"

C1_Witness ==
    \E r1, r2 \in Reqs : Absent(r1) /\ Empty(r2) /\ pc[r1] = "done" /\ pc[r2] = "done"

C3_UpstreamFailure ==
    \A r \in Reqs :
        (NonEmpty(r) /\ Failed(r) /\ pc[r] \in {"done", "awaitFetch"}) =>
            /\ pc[r] = "done"
            /\ OneResponse(r, 500)
            /\ sent[r][1].body = FetchErrorBody

C3_Witness ==
    \E r1, r2 \in Reqs :
        /\ pc[r1] = "done" /\ outcome[r1].kind = "reject"
        /\ pc[r2] = "done" /\ Replied(r2) /\ ~outcome[r2].body.wellFormed
        /\ sent[r1] = sent[r2]

\* C4: every response sent carries Access-Control-Allow-Origin: *.
C4_CorsOnEveryResponse ==
    \A r \in Reqs :
        \A i \in 1..Len(sent[r]) : AllowAnyOrigin \in sent[r][i].headers

C4_Witness ==
    \E r1, r2 \in Reqs :
        /\ OneResponse(r1, 500) /\ AllowAnyOrigin \in sent[r1][1].headers
        /\ \/ OneResponse(r2, 200)
           \/ OneResponse(r2, 400)
        /\ AllowAnyOrigin \in sent[r2][1].headers

C6_NonBlocking ==
    \A r1, r2 \in Reqs :
        (r1 # r2 /\ pc[r1] \in {"awaitFetch", "hung"}) =>
            /\ pc[r2] = "new" => ENABLED (\E q \in QueryInputs : Receive(r2, q))
            /\ pc[r2] = "awaitFetch" => ENABLED FetchStep(r2)
            /\ pc[r2] = "awaitJson" => ENABLED JsonSettle(r2)

\* r2 was served by the upstream after r1's call was left hanging.
C6_Witness ==
    \E r1, r2 \in Reqs :
        /\ pc[r1] = "hung"
        /\ pc[r2] = "done" /\ OneResponse(r2, 200)
        /\ outcome[r2].epoch > outcome[r1].epoch

\* C7: at most one upstream call is issued per request, and a failed call is
\* followed by the 500 response, never by a second call.
C7_NoRetry ==
    \A r \in Reqs :
        /\ Len(calls[r]) <= 1
        /\ outcome[r].kind = "reject" =>
              pc[r] = "done" /\ OneResponse(r, 500) /\ Len(calls[r]) = 1
        /\ (pc[r] = "done" /\ Replied(r) /\ ~Succeeded(r)) =>
              OneResponse(r, 500) /\ Len(calls[r]) = 1

C7_Witness ==
    \E r \in Reqs :
        outcome[r].kind = "reject" /\ OneResponse(r, 500) /\ Len(calls[r]) = 1

\* C8: two answered requests with the same query get the same response
\* (status, body, headers) when the upstream has not changed between them;
\* requests that never reach the upstream get the same response always.
C8_Idempotent ==
    \A r1, r2 \in Reqs :
        (/\ pc[r1] = "done" /\ pc[r2] = "done"
         /\ query[r1] = query[r2]
         /\ NonEmpty(r1) => outcome[r1].epoch = outcome[r2].epoch)
        => sent[r1] = sent[r2]

C8_Witness ==
    \E r1, r2 \in Reqs :
        /\ r1 # r2
        /\ pc[r1] = "done" /\ pc[r2] = "done"
        /\ NonEmpty(r1) /\ query[r1] = query[r2]
        /\ outcome[r1].epoch = 1 /\ outcome[r2].epoch = 1
        /\ OneResponse(r1, 200) /\ sent[r1] = sent[r2]

\* C9: a request with a non-empty query has no response before its upstream
\* call is settled; one whose call is never answered stays pending for ever,
\* without a response; and every request whose call is not left hanging is
\* eventually answered.
C9_NoTimeout ==
    /\ [](\A r \in Reqs : pc[r] \in {"awaitFetch", "hung"} => sent[r] = <<>>)
    /\ [][\A r \in Reqs :
             pc[r] = "hung" => pc'[r] = "hung" /\ sent'[r] = <<>>]_vars
    /\ \A r \in Reqs :
          (pc[r] \in {"awaitFetch", "awaitJson"})
              ~> (pc[r] = "hung" \/ Len(sent[r]) = 1)

C9_Witness ==
    \E r1, r2 \in Reqs :
        /\ pc[r1] = "hung" /\ sent[r1] = <<>> /\ epoch > outcome[r1].epoch
        /\ pc[r2] = "done" /\ NonEmpty(r2)

====
